---------------------------- MODULE Spec2Model ----------------------------
(***************************************************************************)
(* Bubble Babble encoding (src/src/lib.rs): bubblebabble, stablebabble and *)
(* their common body bubblebabble_impl, as a state machine that steps      *)
(* through the round loop and the stable-mode post-processing loop.        *)
(*                                                                         *)
(* A Rust String is a sequence of one-character strings; a byte is an      *)
(* integer in 0..255; a usize never overflows here (the largest value is   *)
(* 35*5 + 255*7 + 255).  An index out of range panics in Rust: the model   *)
(* moves to pc = "panic" and stops.                                        *)
(***************************************************************************)
EXTENDS Integers, Sequences, FiniteSets, TLC

VARIABLES
    bytes,      \* the argument `bytes` of the call
    use_seed,   \* the argument `use_seed` of bubblebabble_impl
    pc,         \* "call", "round", "collapse", "done", "panic"; "pair" in SpecPair
    i,          \* the round loop's `i`
    seed,       \* `seed`
    idx,        \* `idx` of the latest round (the indexes it computed)
    reads,      \* the indexes into `bytes` the latest round read
    bubble,     \* `bubble`
    words,      \* bubble.split('-'), the iterator's items
    wi,         \* the `i` of enumerate() in the collapse loop
    result,     \* `result`
    last,       \* `last`
    count,      \* `count`
    out,        \* the returned String
    bytes2,     \* argument of a second, independent call (SpecPair only)
    bubble2,    \* its `bubble`
    out2        \* its returned String

vars == <<bytes, use_seed, pc, i, seed, idx, reads, bubble, words, wi,
          result, last, count, out, bytes2, bubble2, out2>>

\* A string literal as a sequence of characters.
Chars(s) == [k \in 1..Len(s) |-> SubSeq(s, k, k)]

-----------------------------------------------------------------------------
(* Bounds of the model *)

\* Longest input drawn from ByteVals.
MaxLen == 8

\* Inputs of 2n zero bytes are drawn for n up to this.
MaxZeroPairs == 11

\* Longest input of each of the two calls of SpecPair.
PairMaxLen == 7

\* The byte values the long inputs are built from: 0x00, 0x01 and 0xe5.
ByteVals == {0, 1, 229}

\* The byte values the inputs of the two calls of SpecPair are built from.
PairByteVals == {0, 229}

Byte == 0..255

SeqsUpTo(S, n) == UNION {[1..k -> S] : k \in 0..n}

Zeros(n) == [k \in 1..n |-> 0]

\* The inputs of the tests of lib.rs (Ipv6Addr::octets()).
TestInputs ==
    { Zeros(16),
      Zeros(15) \o <<1>>,
      Zeros(15) \o <<2>>,
      <<42, 10, 229, 192, 0, 2, 0, 5, 92, 249, 204, 200, 124, 72, 151, 192>>,
      <<254, 128, 0, 0, 0, 0, 0, 0, 70, 133, 0, 255, 254, 118, 23, 34>> }

Inputs ==
    SeqsUpTo(ByteVals, MaxLen)
    \cup {<<b>> : b \in Byte}
    \cup {<<v, b>> : v \in ByteVals, b \in Byte}
    \cup {Zeros(2 * n) : n \in 0..MaxZeroPairs}
    \cup TestInputs

PairInputs == SeqsUpTo(PairByteVals, PairMaxLen)

-----------------------------------------------------------------------------
(* bubblebabble_impl: the round loop *)

vowels == Chars("aeiouy")

consonants == Chars("bcdfghklmnprstvzx")

Rounds(len) == (len \div 2) + 1

\* Mutant: `i + 1 <= rounds`, so the terminal round reads a byte too.
ReadsByte_OffByOne(r, rounds, len) == (r + 1 <= rounds) \/ (len % 2 # 0)

\* The `if` of a round that reads bytes[2 * i].
ReadsByte(r, rounds, len) == (r + 1 < rounds) \/ (len % 2 # 0)

\* The inner `if` of a round that reads bytes[(2 * i) + 1].
ReadsSecond(r, rounds) == (r + 1) < rounds

Idx0(b0, sd) == (((b0 \div 64) % 4) + sd) % 6

Idx1(b0) == (b0 \div 4) % 16

Idx2(b0, sd) == ((b0 % 4) + (sd \div 6)) % 6

Idx3(b1) == (b1 \div 16) % 16

Idx4(b1) == b1 % 16

\* Mutant: the second byte is left out of the checksum.
NextSeed_NoSecondByte(sd, b0, b1, use) ==
    IF use THEN ((sd * 5) + (b0 * 7)) % 36 ELSE 0

\* Mutant: the checksum is reduced modulo 37.
NextSeed_Mod37(sd, b0, b1, use) ==
    IF use THEN ((sd * 5) + ((b0 * 7) + b1)) % 37 ELSE 0

\* Mutant: stable mode carries the checksum too.
NextSeed_Carried(sd, b0, b1, use) == ((sd * 5) + ((b0 * 7) + b1)) % 36

NextSeed(sd, b0, b1, use) ==
    IF use THEN ((sd * 5) + ((b0 * 7) + b1)) % 36 ELSE 0

InVowels(k) == k \in 0..(Len(vowels) - 1)

InConsonants(k) == k \in 0..(Len(consonants) - 1)

\* The three pushes of a word's vowel, consonant, vowel.
Word(i0, i1, i2) == <<vowels[i0 + 1], consonants[i1 + 1], vowels[i2 + 1]>>

\* Mutant: the '-' is pushed after the second consonant.
WordEnd_HyphenLast(i3, i4) == <<consonants[i3 + 1], consonants[i4 + 1], "-">>

\* The three pushes after a round's second byte.
WordEnd(i3, i4) == <<consonants[i3 + 1], "-", consonants[i4 + 1]>>

Panic(sd, bub, ix, rd) ==
    [seed |-> sd, bubble |-> bub, idx |-> ix, reads |-> rd, panic |-> TRUE]

\* One iteration of `for i in 0..rounds`.
Round(bs, use, r, sd, bub) ==
    LET len    == Len(bs)
        rounds == Rounds(len)
        zero   == <<0, 0, 0, 0, 0>>
    IN
    IF ReadsByte(r, rounds, len)
    THEN IF 2 * r >= len
         THEN Panic(sd, bub, zero, {2 * r})
         ELSE
         LET b0 == bs[2 * r + 1]
             i0 == Idx0(b0, sd)
             i1 == Idx1(b0)
             i2 == Idx2(b0, sd)
         IN
         IF ~(InVowels(i0) /\ InConsonants(i1) /\ InVowels(i2))
         THEN Panic(sd, bub, <<i0, i1, i2, 0, 0>>, {2 * r})
         ELSE
         IF ReadsSecond(r, rounds)
         THEN IF 2 * r + 1 >= len
              THEN Panic(sd, bub \o Word(i0, i1, i2), <<i0, i1, i2, 0, 0>>,
                         {2 * r, 2 * r + 1})
              ELSE
              LET b1 == bs[2 * r + 2]
                  i3 == Idx3(b1)
                  i4 == Idx4(b1)
              IN
              IF ~(InConsonants(i3) /\ InConsonants(i4))
              THEN Panic(sd, bub \o Word(i0, i1, i2), <<i0, i1, i2, i3, i4>>,
                         {2 * r, 2 * r + 1})
              ELSE [seed   |-> NextSeed(sd, b0, b1, use),
                    bubble |-> bub \o Word(i0, i1, i2) \o WordEnd(i3, i4),
                    idx    |-> <<i0, i1, i2, i3, i4>>,
                    reads  |-> {2 * r, 2 * r + 1},
                    panic  |-> FALSE]
         ELSE [seed   |-> sd,
               bubble |-> bub \o Word(i0, i1, i2),
               idx    |-> <<i0, i1, i2, 0, 0>>,
               reads  |-> {2 * r},
               panic  |-> FALSE]
    ELSE
    LET i0 == sd % 6
        i1 == 16
        i2 == sd \div 6
    IN
    IF ~(InVowels(i0) /\ InConsonants(i1) /\ InVowels(i2))
    THEN Panic(sd, bub, <<i0, i1, i2, 0, 0>>, {})
    ELSE [seed   |-> sd,
          bubble |-> bub \o Word(i0, i1, i2),
          idx    |-> <<i0, i1, i2, 0, 0>>,
          reads  |-> {},
          panic  |-> FALSE]

-----------------------------------------------------------------------------
(* bubblebabble_impl: the stable-mode post-processing *)

\* str::split(sep) for a one-character separator: the items, at least one.
RECURSIVE SplitFrom(_, _, _, _)
SplitFrom(s, sep, k, cur) ==
    IF k > Len(s) THEN <<cur>>
    ELSE IF s[k] = sep THEN <<cur>> \o SplitFrom(s, sep, k + 1, <<>>)
    ELSE SplitFrom(s, sep, k + 1, Append(cur, s[k]))

Split(s, sep) == SplitFrom(s, sep, 1, <<>>)

\* usize::to_string(): the decimal digits.
RECURSIVE to_string(_)
to_string(n) ==
    IF n < 10 THEN <<Chars("0123456789")[n + 1]>>
    ELSE to_string(n \div 10) \o <<Chars("0123456789")[(n % 10) + 1]>>

\* Mutant: `count >= 1`.
CountPrefix_AtLeastOne(c) == IF c >= 1 THEN to_string(c) ELSE <<>>

\* Mutant: the count is never written.
CountPrefix_None(c) == <<>>

\* `if count > 1 { result.push_str(&count.to_string()); }`
CountPrefix(c) == IF c > 1 THEN to_string(c) ELSE <<>>

\* `if i > 1 { result.push('-'); }`
Separator(n) == IF n > 1 THEN <<"-">> ELSE <<>>

\* One iteration of `for (i, word) in bubble.split('-').enumerate()`.
Collapse(n, word, res, lst, cnt) ==
    IF lst = word
    THEN [result |-> res, last |-> word, count |-> cnt + 1]
    ELSE IF n > 0
    THEN [result |-> res \o Separator(n) \o CountPrefix(cnt) \o lst,
          last   |-> word,
          count  |-> 1]
    ELSE [result |-> res, last |-> word, count |-> cnt]

\* `result.push('-'); result.push_str(last);`
PushLast(res, lst) == res \o <<"-">> \o lst

StartsWithAt(s, k, pat) ==
    /\ k + Len(pat) - 1 <= Len(s)
    /\ SubSeq(s, k, k + Len(pat) - 1) = pat

\* str::replace(from, to): the non-overlapping matches of a non-empty `from`,
\* found left to right, each replaced by `to`.
RECURSIVE ReplaceFrom(_, _, _, _)
ReplaceFrom(s, from, to, k) ==
    IF k > Len(s) THEN <<>>
    ELSE IF StartsWithAt(s, k, from)
    THEN to \o ReplaceFrom(s, from, to, k + Len(from))
    ELSE <<s[k]>> \o ReplaceFrom(s, from, to, k + 1)

\* Mutant: str::replacen(from, to, 1), the first match only.
RECURSIVE ReplaceFirstFrom(_, _, _, _)
ReplaceFirstFrom(s, from, to, k) ==
    IF k > Len(s) THEN <<>>
    ELSE IF StartsWithAt(s, k, from)
    THEN to \o SubSeq(s, k + Len(from), Len(s))
    ELSE <<s[k]>> \o ReplaceFirstFrom(s, from, to, k + 1)

Replace_First(s, from, to) == ReplaceFirstFrom(s, from, to, 1)

Replace(s, from, to) == ReplaceFrom(s, from, to, 1)

-----------------------------------------------------------------------------
(* bubblebabble_impl as a whole, for the calls of SpecPair *)

RECURSIVE RoundsFrom(_, _, _, _)
RoundsFrom(bs, use, r, st) ==
    IF st.panic \/ r >= Rounds(Len(bs)) THEN st
    ELSE RoundsFrom(bs, use, r + 1, Round(bs, use, r, st.seed, st.bubble))

\* `bubble` after the loop and the closing 'x'.
RawBubble(bs, use) ==
    LET st == RoundsFrom(bs, use, 0,
                  [seed |-> 1, bubble |-> <<"x">>, idx |-> <<0, 0, 0, 0, 0>>,
                   reads |-> {}, panic |-> FALSE])
    IN IF st.panic THEN <<"!">> ELSE st.bubble \o <<"x">>

RECURSIVE CollapseFrom(_, _, _)
CollapseFrom(ws, n, st) ==
    IF n >= Len(ws) THEN st
    ELSE CollapseFrom(ws, n + 1,
                      Collapse(n, ws[n + 1], st.result, st.last, st.count))

\* What the call returns once `bubble` is complete ("!" stands for a panic):
\* `bubble` in checksum mode, the collapsed and substituted string otherwise.
Return(raw, use) ==
    IF use \/ raw = <<"!">> THEN raw
    ELSE LET st == CollapseFrom(Split(raw, "-"), 0,
                                [result |-> <<>>, last |-> <<>>, count |-> 1])
         IN Replace(PushLast(st.result, st.last), Chars("babab"), Chars("wa"))

bubblebabble_impl(bs, use) == Return(RawBubble(bs, use), use)

-----------------------------------------------------------------------------
(* The state machine of one call *)

Init ==
    /\ bytes \in Inputs
    /\ use_seed = FALSE
    /\ pc = "call"
    /\ i = 0
    /\ seed = 1
    /\ idx = <<0, 0, 0, 0, 0>>
    /\ reads = {}
    /\ bubble = <<>>
    /\ words = <<>>
    /\ wi = 0
    /\ result = <<>>
    /\ last = <<>>
    /\ count = 1
    /\ out = <<>>
    /\ bytes2 = <<>>
    /\ bubble2 = <<>>
    /\ out2 = <<>>

\* The call enters bubblebabble_impl: `let mut seed = 1; bubble.push('x');`
Enter(use) ==
    /\ pc = "call"
    /\ pc' = "round"
    /\ use_seed' = use
    /\ i' = 0
    /\ seed' = 1
    /\ bubble' = <<"x">>
    /\ UNCHANGED <<bytes, idx, reads, words, wi, result, last, count, out,
                   bytes2, bubble2, out2>>

bubblebabble == Enter(TRUE)

stablebabble == Enter(FALSE)

\* One iteration of the round loop.
RoundStep ==
    /\ pc = "round"
    /\ i < Rounds(Len(bytes))
    /\ LET st == Round(bytes, use_seed, i, seed, bubble)
       IN /\ seed' = st.seed
          /\ bubble' = st.bubble
          /\ idx' = st.idx
          /\ reads' = st.reads
          /\ pc' = IF st.panic THEN "panic" ELSE "round"
          /\ i' = IF st.panic THEN i ELSE i + 1
    /\ UNCHANGED <<bytes, use_seed, words, wi, result, last, count, out,
                   bytes2, bubble2, out2>>

\* After the loop: the closing 'x'; checksum mode returns, stable mode sets up
\* the collapse loop.
EndRounds ==
    /\ pc = "round"
    /\ i >= Rounds(Len(bytes))
    /\ bubble' = bubble \o <<"x">>
    /\ IF use_seed
       THEN /\ out' = bubble'
            /\ pc' = "done"
            /\ UNCHANGED <<words, wi, result, last, count>>
       ELSE /\ result' = <<>>
            /\ last' = <<>>
            /\ count' = 1
            /\ words' = Split(bubble', "-")
            /\ wi' = 0
            /\ pc' = "collapse"
            /\ UNCHANGED out
    /\ UNCHANGED <<bytes, use_seed, i, seed, idx, reads, bytes2, bubble2, out2>>

\* One iteration of the collapse loop.
CollapseStep ==
    /\ pc = "collapse"
    /\ wi < Len(words)
    /\ LET st == Collapse(wi, words[wi + 1], result, last, count)
       IN /\ result' = st.result
          /\ last' = st.last
          /\ count' = st.count
    /\ wi' = wi + 1
    /\ UNCHANGED <<bytes, use_seed, pc, i, seed, idx, reads, bubble, words, out,
                   bytes2, bubble2, out2>>

\* After the collapse loop: the last word, then "babab" -> "wa".
Finish ==
    /\ pc = "collapse"
    /\ wi >= Len(words)
    /\ result' = PushLast(result, last)
    /\ out' = Replace(result', Chars("babab"), Chars("wa"))
    /\ pc' = "done"
    /\ UNCHANGED <<bytes, use_seed, i, seed, idx, reads, bubble, words, wi,
                   last, count, bytes2, bubble2, out2>>

Next ==
    \/ bubblebabble
    \/ stablebabble
    \/ RoundStep
    \/ EndRounds
    \/ CollapseStep
    \/ Finish

Spec == Init /\ [][Next]_vars

-----------------------------------------------------------------------------
(* Two independent calls in the same mode, each taken as one step *)

InitPair ==
    /\ bytes \in PairInputs
    /\ bytes2 \in PairInputs
    /\ use_seed \in BOOLEAN
    /\ pc = "pair"
    /\ i = 0
    /\ seed = 1
    /\ idx = <<0, 0, 0, 0, 0>>
    /\ reads = {}
    /\ bubble = <<>>
    /\ words = <<>>
    /\ wi = 0
    /\ result = <<>>
    /\ last = <<>>
    /\ count = 1
    /\ out = <<>>
    /\ bubble2 = <<>>
    /\ out2 = <<>>

CallBoth ==
    /\ pc = "pair"
    /\ bubble' = RawBubble(bytes, use_seed)
    /\ out' = Return(bubble', use_seed)
    /\ bubble2' = RawBubble(bytes2, use_seed)
    /\ out2' = Return(bubble2', use_seed)
    /\ pc' = "done"
    /\ UNCHANGED <<bytes, bytes2, use_seed, i, seed, idx, reads, words, wi,
                   result, last, count>>

NextPair == CallBoth

SpecPair == InitPair /\ [][NextPair]_vars

\* The tests of lib.rs (test_bubblebabble, test_stablebabble) pass on the model.
TestsPass ==
    pc = "done" =>
        /\ (bytes = Zeros(16) /\ ~use_seed) => out = Chars("xebab-7wa-baxax")
        /\ (bytes = Zeros(15) \o <<1>> /\ ~use_seed) => out = Chars("xebab-7wa-caxax")
        /\ (bytes = Zeros(15) \o <<2>> /\ ~use_seed) => out = Chars("xebab-7wa-daxax")
        /\ (bytes = <<42, 10, 229, 192, 0, 2, 0, 5, 92, 249, 204, 200, 124, 72, 151, 192>>) =>
               out = IF use_seed
                     THEN Chars("xepib-panus-bubub-dubyb-hilyz-nefas-myzug-mihos-bexux")
                     ELSE Chars("xepib-pones-wa-dabab-helaz-nofas-mezag-mihos-baxax")
        /\ (bytes = <<254, 128, 0, 0, 0, 0, 0, 0, 70, 133, 0, 255, 254, 118, 23, 34>>) =>
               out = IF use_seed
                     THEN Chars("xuzim-bobab-bobib-bobab-bucum-hibiz-zuzil-kyhed-duxix")
                     ELSE Chars("xuzim-3wa-becim-habaz-zozil-kahod-daxax")
        /\ (bytes = Zeros(16) /\ use_seed) =>
               out = Chars("xebab-bybab-bebub-bybib-bebib-bybub-bebab-bybab-bexux")
        /\ (bytes = Zeros(15) \o <<1>> /\ use_seed) =>
               out = Chars("xebab-bybab-bebub-bybib-bebib-bybub-bebab-bybab-cixux")
        /\ (bytes = Zeros(15) \o <<2>> /\ use_seed) =>
               out = Chars("xebab-bybab-bebub-bybib-bebib-bybub-bebab-bybab-doxux")

\* The stepwise call and bubblebabble_impl taken as a whole return the same.
StepwiseAgrees == pc = "done" => out = bubblebabble_impl(bytes, use_seed)

-----------------------------------------------------------------------------
(* The claims *)

Done == pc = "done"

\* The alphabet as the specification gives it.
SpecVowels == Chars("aeiouy")

SpecConsonants == Chars("bcdfghklmnprstvzx")

RECURSIVE SpecRounds(_, _, _)
SpecRounds(b, r, sd) ==
    IF r > Len(b) \div 2 THEN <<>>
    ELSE IF 2 * r < Len(b)
    THEN LET b0   == b[2 * r + 1]
             head == << SpecVowels[((((b0 \div 64) % 4) + sd) % 6) + 1],
                        SpecConsonants[((b0 \div 4) % 16) + 1],
                        SpecVowels[(((b0 % 4) + (sd \div 6)) % 6) + 1] >>
         IN IF 2 * r + 1 < Len(b)
            THEN LET b1 == b[2 * r + 2]
                 IN head
                    \o << SpecConsonants[((b1 \div 16) % 16) + 1], "-",
                          SpecConsonants[(b1 % 16) + 1] >>
                    \o SpecRounds(b, r + 1, (sd * 5 + b0 * 7 + b1) % 36)
            ELSE head \o SpecRounds(b, r + 1, sd)
    ELSE << SpecVowels[(sd % 6) + 1], "x", SpecVowels[(sd \div 6) + 1] >>
         \o SpecRounds(b, r + 1, sd)

\* C1: bubblebabble(b) is the string the checksum-mode algorithm of the
\* specification builds: 'x', the rounds 0..floor(L/2) with the seed starting
\* at 1 and updated to (seed*5 + b0*7 + b1) mod 36 after each two-byte round,
\* and a final 'x'; bubblebabble([]) = "xexax" and 16 zero bytes give
\* "xebab-bybab-bebub-bybib-bebib-bybub-bebab-bybab-bexux".
C1_ChecksumAlgorithm ==
    (Done /\ use_seed) =>
        /\ out = <<"x">> \o SpecRounds(bytes, 0, 1) \o <<"x">>
        /\ bytes = <<>> => out = Chars("xexax")
        /\ bytes = Zeros(16) =>
               out = Chars("xebab-bybab-bebub-bybib-bebib-bybub-bebab-bybab-bexux")

C1_Witness ==
    /\ Done
    /\ use_seed
    /\ bytes = <<42, 10, 229, 192, 0, 2, 0, 5, 92, 249, 204, 200, 124, 72, 151, 192>>
    /\ out = Chars("xepib-panus-bubub-dubyb-hilyz-nefas-myzug-mihos-bexux")

\* C2: the first and the last character of the string either function returns
\* are 'x', for every input, the empty one and those of length 1 included.
C2_Framed ==
    Done => /\ Len(out) > 0
            /\ out[1] = "x"
            /\ out[Len(out)] = "x"

RECURSIVE C3_RunLength(_, _)
C3_RunLength(ws, k) ==
    IF k < Len(ws) /\ ws[k + 1] = ws[k] THEN 1 + C3_RunLength(ws, k + 1) ELSE 1

C3_Decimal(n) ==
    IF n < 10 THEN <<Chars("0123456789")[n + 1]>>
    ELSE <<Chars("0123456789")[(n \div 10) + 1], Chars("0123456789")[(n % 10) + 1]>>

RECURSIVE C3_CollapseRuns(_, _)
C3_CollapseRuns(ws, k) ==
    IF k > Len(ws) THEN <<>>
    ELSE LET n == C3_RunLength(ws, k)
         IN <<(IF n > 1 THEN C3_Decimal(n) ELSE <<>>) \o ws[k]>>
            \o C3_CollapseRuns(ws, k + n)

RECURSIVE C3_Join(_)
C3_Join(ts) ==
    IF ts = <<>> THEN <<>>
    ELSE IF Len(ts) = 1 THEN ts[1]
    ELSE ts[1] \o <<"-">> \o C3_Join(Tail(ts))

C3_Pipeline(raw) ==
    Replace(C3_Join(C3_CollapseRuns(Split(raw, "-"), 1)), Chars("babab"), Chars("wa"))

\* C3: stablebabble(b) is the raw stable-mode string split on '-', every
\* maximal run of k equal tokens replaced by "<k><token>" (k > 1) or "<token>"
\* (k = 1), the tokens joined with '-' only between them, and every "babab"
\* replaced by "wa".
C3_StableIsPipeline ==
    (Done /\ ~use_seed) => out = C3_Pipeline(bubble)

\* C4: both functions are total: no call panics, every state before the return
\* has a next step, every byte index read in a round is below the length,
\* every vowel index is in 0..5 and every consonant index in 0..16.
C4_Total ==
    /\ pc # "panic"
    /\ ~Done => ENABLED Next
    /\ \A r \in reads : r < Len(bytes)
    /\ idx[1] \in 0..5
    /\ idx[2] \in 0..16
    /\ idx[3] \in 0..5
    /\ idx[4] \in 0..16
    /\ idx[5] \in 0..16

C4_Witness ==
    /\ Done
    /\ Len(bytes) = 7
    /\ reads = {6}
    /\ bytes[7] = 229

C5_TwoByteRounds(b) == 0..((Len(b) \div 2) - 1)

C5_Bytes(b, r) == <<b[2 * r + 1], b[2 * r + 2]>>

\* The five letters the raw string holds for two-byte round r.
C5_Letters(raw, r) ==
    <<raw[6 * r + 2], raw[6 * r + 3], raw[6 * r + 4], raw[6 * r + 5], raw[6 * r + 7]>>

\* The five letters of bytes b0, b1 under seed sd.
C5_LettersOf(b0, b1, sd) ==
    << SpecVowels[((((b0 \div 64) % 4) + sd) % 6) + 1],
       SpecConsonants[((b0 \div 4) % 16) + 1],
       SpecVowels[(((b0 % 4) + (sd \div 6)) % 6) + 1],
       SpecConsonants[((b1 \div 16) % 16) + 1],
       SpecConsonants[(b1 % 16) + 1] >>

\* C5 as stated: in stable mode two two-byte rounds (the first round included)
\* of any two inputs that consume the same two bytes emit the same five letters.
C5_EveryRoundStable ==
    (Done /\ ~use_seed) =>
        \A r \in C5_TwoByteRounds(bytes), s \in C5_TwoByteRounds(bytes2) :
            C5_Bytes(bytes, r) = C5_Bytes(bytes2, s)
                => C5_Letters(bubble, r) = C5_Letters(bubble2, s)

\* C5 as amended: in stable mode two two-byte rounds of any two inputs that
\* consume the same two bytes emit the same five letters when both are the
\* first round or both are later rounds; the seed of the vowels is 1 in the
\* first round and 0 in every later round.
C5_LaterRoundsStable ==
    (Done /\ ~use_seed) =>
        /\ \A r \in C5_TwoByteRounds(bytes), s \in C5_TwoByteRounds(bytes2) :
               (C5_Bytes(bytes, r) = C5_Bytes(bytes2, s) /\ ((r = 0) <=> (s = 0)))
                   => C5_Letters(bubble, r) = C5_Letters(bubble2, s)
        /\ \A r \in C5_TwoByteRounds(bytes) :
               C5_Letters(bubble, r)
                   = C5_LettersOf(bytes[2 * r + 1], bytes[2 * r + 2],
                                  IF r = 0 THEN 1 ELSE 0)

C5_Witness ==
    /\ Done
    /\ ~use_seed
    /\ bytes = <<0, 0, 229, 0, 229, 229>>
    /\ bytes2 = <<229, 229, 0, 229, 229, 0, 0>>
    /\ C5_Letters(bubble, 1) = C5_Letters(bubble2, 2)
    /\ C5_Letters(bubble, 2) # C5_Letters(bubble2, 0)

\* C6: bubblebabble's output split on '-' has floor(L/2)+1 = ceil((L+1)/2)
\* tokens of 5 characters each, so its length is 6*(floor(L/2)+1) - 1, which
\* depends on L only and is at most the capacity rounds*6.
C6_Length ==
    (Done /\ use_seed) =>
        LET L    == Len(bytes)
            toks == Split(out, "-")
        IN /\ Len(toks) = (L \div 2) + 1
           /\ Len(toks) = (L + 2) \div 2
           /\ \A k \in 1..Len(toks) : Len(toks[k]) = 5
           /\ Len(out) = 6 * ((L \div 2) + 1) - 1
           /\ Len(out) <= Rounds(L) * 6

C6_Witness ==
    /\ Done
    /\ use_seed
    /\ Len(bytes) = 7
    /\ Len(out) = 23
    /\ Len(Split(out, "-")) = 4

C7_Occurrences(s, pat) ==
    {k \in 1..Len(s) : k + Len(pat) - 1 <= Len(s) /\ SubSeq(s, k, k + Len(pat) - 1) = pat}

\* C7: the string stablebabble returns does not contain "babab".
C7_NoBabab ==
    (Done /\ ~use_seed) => C7_Occurrences(out, Chars("babab")) = {}

C7_Witness ==
    /\ Done
    /\ ~use_seed
    /\ Cardinality(C7_Occurrences(result, Chars("babab"))) >= 2
    /\ Cardinality(C7_Occurrences(out, Chars("wa"))) >= 2
    /\ C7_Occurrences(out, Chars("babab")) = {}

\* C8: for 2n zero bytes, n >= 2, stablebabble returns "xebab-", the decimal
\* count n-1 (left out when n-1 = 1), "wa-baxax"; 16 zero bytes give
\* "xebab-7wa-baxax".
C8_ZeroRun ==
    (Done /\ ~use_seed) =>
        LET n == Len(bytes) \div 2
        IN /\ (n >= 2 /\ bytes = Zeros(2 * n)) =>
                  out = Chars("xebab-")
                        \o (IF n - 1 > 1 THEN C3_Decimal(n - 1) ELSE <<>>)
                        \o Chars("wa-baxax")
           /\ bytes = Zeros(16) => out = Chars("xebab-7wa-baxax")

C8_Witness ==
    /\ Done
    /\ ~use_seed
    /\ bytes = Zeros(22)
    /\ out = Chars("xebab-10wa-baxax")

RECURSIVE C9_SeedAfter(_, _, _)
C9_SeedAfter(b, use, k) ==
    IF k = 0 THEN 1
    ELSE LET p == C9_SeedAfter(b, use, k - 1)
         IN IF 2 * k <= Len(b)
            THEN IF use THEN (p * 5 + b[2 * k - 1] * 7 + b[2 * k]) % 36 ELSE 0
            ELSE p

\* C9: in every state the seed is in [0,36): 1 before the first round, and
\* after each two-byte round (seed*5 + b0*7 + b1) mod 36 in checksum mode and
\* 0 in stable mode, so seed div 6 and seed mod 6 are in 0..5.
C9_SeedRange ==
    /\ seed \in 0..35
    /\ seed = C9_SeedAfter(bytes, use_seed, i)
    /\ seed \div 6 \in 0..5
    /\ seed % 6 \in 0..5

C9_Witness ==
    /\ pc = "round"
    /\ use_seed
    /\ Len(bytes) = 8
    /\ i = 4
    /\ seed = 35

\* C10: both encoders are injective: two different inputs, of equal or of
\* different lengths, never give the same string, in either mode.
C10_Injective ==
    (Done /\ bytes # bytes2) => out # out2

C10_Witness ==
    /\ Done
    /\ ~use_seed
    /\ bytes = Zeros(6)
    /\ bytes2 = Zeros(4)
    /\ out = Chars("xebab-2wa-baxax")
    /\ out2 = Chars("xebab-wa-baxax")

=============================================================================
